---------------------------- MODULE Spec2Model ----------------------------
(***************************************************************************)
(* collectFields (src/src/execution/collectFields.ts) as a state machine.  *)
(*                                                                         *)
(* The recursion of collectFields is made explicit as a stack of frames,   *)
(* one per active call; every action is one iteration of the `for` loop of *)
(* the call on top of the stack, or the return of that call.  The Map      *)
(* objects the calls share or fork are kept in a heap (fieldMaps) and are  *)
(* referred to by index, so that aliasing of accumulators is visible.      *)
(***************************************************************************)
EXTENDS Integers, Sequences, FiniteSets, TLC

\* ------------------------------------------------------------------ bounds

\* Longest top-level selection set drawn by Init.
MaxLen == 2

\* Depth of the call stack at which the engine raises RangeError
\* ("Maximum call stack size exceeded").
MaxStack == 8

\* --------------------------------------------------------------- JS values

JSUndefined == [type |-> "undefined", value |-> ""]
JSNull == [type |-> "object", value |-> "null"]
JSTrue == [type |-> "boolean", value |-> "true"]
JSFalse == [type |-> "boolean", value |-> "false"]
JSString(s) == [type |-> "string", value |-> s]

\* What getDirectiveValues returns for one directive on one node: undefined
\* (present = FALSE) or the object of its coerced arguments.
NoDirective == [present |-> FALSE, if |-> JSUndefined, label |-> JSUndefined]
Directive(ifValue, labelValue) == [present |-> TRUE, if |-> ifValue, label |-> labelValue]

\* --------------------------------------------------------------- AST nodes

FIELD == "Field"
INLINE_FRAGMENT == "InlineFragment"
FRAGMENT_SPREAD == "FragmentSpread"

NoAlias == ""
NoTypeCondition == ""

FieldNode(name, alias, skip, include) ==
  [kind |-> FIELD, name |-> name, alias |-> alias, typeCondition |-> NoTypeCondition,
   skip |-> skip, include |-> include, defer |-> NoDirective, selectionSet |-> << >>]

InlineFragmentNode(typeCondition, skip, include, defer, selectionSet) ==
  [kind |-> INLINE_FRAGMENT, name |-> "", alias |-> NoAlias, typeCondition |-> typeCondition,
   skip |-> skip, include |-> include, defer |-> defer, selectionSet |-> selectionSet]

FragmentSpreadNode(name, skip, include, defer) ==
  [kind |-> FRAGMENT_SPREAD, name |-> name, alias |-> NoAlias, typeCondition |-> NoTypeCondition,
   skip |-> skip, include |-> include, defer |-> defer, selectionSet |-> << >>]

FragmentDefinitionNode(typeCondition, selectionSet) ==
  [typeCondition |-> typeCondition, selectionSet |-> selectionSet]

\* ------------------------------------------------------------------ schema

\* The schema the type conditions are resolved against: two object types,
\* an interface both implement, a union with the single member Cat.
ObjectTypes == {"Dog", "Cat"}
AbstractTypes == {"Pet", "Feline"}
PossibleTypes(abstractType) ==
  IF abstractType = "Pet" THEN {"Dog", "Cat"} ELSE {"Cat"}

\* typeFromAST: the named type, or undefined when the schema has none.
typeFromAST(typeConditionNode) ==
  IF typeConditionNode \in ObjectTypes \cup AbstractTypes
  THEN typeConditionNode ELSE "undefined"

isAbstractType(type) == type \in AbstractTypes

isSubType(abstractType, maybeSubType) == maybeSubType \in PossibleTypes(abstractType)

\* ------------------------------------------------------------------- state

VARIABLES
  fragments,             \* ObjMap<FragmentDefinitionNode> of the top-level call
  runtimeType,           \* the runtime object type of the top-level call
  selectionSet,          \* the selection set of the top-level call
  stack,                 \* the active calls of collectFields, outermost first
  fieldMaps,             \* the Map objects: [1] the caller's `fields`, then each `new Map()`
  patches,               \* the shared Array<PatchFields>
  visitedFragmentNames,  \* the shared Set<string>
  status                 \* "running", "returned" or "RangeError"

vars == <<fragments, runtimeType, selectionSet, stack, fieldMaps, patches,
          visitedFragmentNames, status>>

\* -------------------------------------------------------- pure helpers

\* getFieldEntryKey
getFieldEntryKey(node) == IF node.alias # NoAlias THEN node.alias ELSE node.name

\* `d?.if`
IfOf(d) == IF d.present THEN d.if ELSE JSUndefined

\* Mutant of shouldIncludeNode: an @include whose `if` is not true excludes.
shouldIncludeNodeUnlessTrue(node) ==
  IF IfOf(node.skip) = JSTrue THEN FALSE
  ELSE IF node.include.present /\ node.include.if # JSTrue THEN FALSE
  ELSE TRUE

\* shouldIncludeNode
shouldIncludeNode(node) ==
  IF IfOf(node.skip) = JSTrue THEN FALSE
  ELSE IF IfOf(node.include) = JSFalse THEN FALSE
  ELSE TRUE

\* The value getDeferValues returns: undefined (deferred = FALSE) or {label}.
NotDeferred == [deferred |-> FALSE, label |-> JSUndefined]

\* Mutant of getDeferValues: only `if: true` defers, as for @skip.
getDeferValuesIfTrue(node) ==
  IF ~node.defer.present THEN NotDeferred
  ELSE IF node.defer.if # JSTrue THEN NotDeferred
  ELSE [deferred |-> TRUE,
        label |-> IF node.defer.label.type = "string" THEN node.defer.label ELSE JSUndefined]

\* getDeferValues
getDeferValues(node) ==
  IF ~node.defer.present THEN NotDeferred
  ELSE IF node.defer.if = JSFalse THEN NotDeferred
  ELSE [deferred |-> TRUE,
        label |-> IF node.defer.label.type = "string" THEN node.defer.label ELSE JSUndefined]

\* Mutant of doesFragmentConditionMatch: an abstract type matches any type.
doesFragmentConditionMatchAnyAbstract(fragment, type) ==
  IF fragment.typeCondition = NoTypeCondition THEN TRUE
  ELSE LET conditionalType == typeFromAST(fragment.typeCondition) IN
       IF conditionalType = type THEN TRUE
       ELSE isAbstractType(conditionalType)

\* doesFragmentConditionMatch
doesFragmentConditionMatch(fragment, type) ==
  IF fragment.typeCondition = NoTypeCondition THEN TRUE
  ELSE LET conditionalType == typeFromAST(fragment.typeCondition) IN
       IF conditionalType = type THEN TRUE
       ELSE IF isAbstractType(conditionalType) THEN isSubType(conditionalType, type)
       ELSE FALSE

\* ------------------------------------------------- Map<string, FieldNode[]>

\* A Map is the sequence of its entries in insertion order.
MapKeys(map) == [i \in 1..Len(map) |-> map[i].key]
MapHas(map, key) == \E i \in 1..Len(map) : map[i].key = key
MapIndex(map, key) == CHOOSE i \in 1..Len(map) : map[i].key = key
MapGet(map, key) == map[MapIndex(map, key)].nodes

\* Mutant of AddField: a key met again is set to the new node alone.
AddFieldOverwriting(map, key, node) ==
  IF MapHas(map, key)
  THEN [map EXCEPT ![MapIndex(map, key)].nodes = <<node>>]
  ELSE Append(map, [key |-> key, nodes |-> <<node>>])

\* Mutant of AddField: a key met again moves to the end of the Map.
AddFieldReinserting(map, key, node) ==
  IF MapHas(map, key)
  THEN Append(SelectSeq(map, LAMBDA e : e.key # key),
              [key |-> key, nodes |-> Append(MapGet(map, key), node)])
  ELSE Append(map, [key |-> key, nodes |-> <<node>>])

\* Lines 62-67: push onto the list the key has, or set the key to a new list.
AddField(map, key, node) ==
  IF MapHas(map, key)
  THEN [map EXCEPT ![MapIndex(map, key)].nodes = Append(@, node)]
  ELSE Append(map, [key |-> key, nodes |-> <<node>>])

\* ------------------------------------------------------------------ frames

\* One active call: its selection set, where that selection set sits in the
\* document (a Field node is identified by the path of its position), the
\* index of the selection the loop is at, the Map it was given as `fields`,
\* and the local `defer` of the call it is waiting for.
Frame(selections, path, fieldsRef) ==
  [selections |-> selections, path |-> path, pos |-> 1, fields |-> fieldsRef,
   defer |-> NotDeferred]

Top == stack[Len(stack)]
AtSelection == status = "running" /\ Top.pos <= Len(Top.selections)
Selection == Top.selections[Top.pos]

\* `continue` / `break`: the loop of the top call moves to the next selection.
Advance == [stack EXCEPT ![Len(stack)].pos = @ + 1]

\* A recursive call collectFields(..., selections, fields, patches, visited):
\* the caller keeps its local `defer`, the callee starts at its first selection.
Call(selections, path, fieldsRef, defer) ==
  Append([stack EXCEPT ![Len(stack)].defer = defer], Frame(selections, path, fieldsRef))

\* Mutant of SkipVisited: a visited name is skipped, deferred or not.
SkipVisitedAlways(visited, fragName, defer) == fragName \in visited

\* Line 117: the visited-names guard of a fragment spread.
SkipVisited(visited, fragName, defer) == fragName \in visited /\ ~defer.deferred

\* Mutant of MarkVisited: the name is never recorded.
MarkVisitedNever(visited, fragName) == visited

\* Line 128: visitedFragmentNames.add(fragName).
MarkVisited(visited, fragName) == visited \cup {fragName}

\* Mutant of PushPatch: the patch is put in front (unshift).
PushPatchFront(list, defer, patchFields) ==
  <<[label |-> defer.label, fields |-> patchFields]>> \o list

\* Lines 91-94 and 141-144: patches.push({ label: defer.label, fields: patchFields }).
PushPatch(list, defer, patchFields) ==
  Append(list, [label |-> defer.label, fields |-> patchFields])

\* Mutant of FieldsOfCall: a deferred call is given the caller's Map too.
FieldsOfCallShared(defer, callerFields, newMap) == callerFields

\* Lines 87 and 137: the `fields` argument of a recursive call is a new Map
\* when the fragment is deferred, and the caller's own Map otherwise.
FieldsOfCall(defer, callerFields, newMap) == IF defer.deferred THEN newMap ELSE callerFields

\* ----------------------------------------------------------------- actions

\* case Kind.FIELD
CollectField ==
  /\ AtSelection
  /\ Selection.kind = FIELD
  /\ stack' = Advance
  /\ fieldMaps' =
       IF ~shouldIncludeNode(Selection) THEN fieldMaps
       ELSE [fieldMaps EXCEPT ![Top.fields] =
               AddField(@, getFieldEntryKey(Selection), Append(Top.path, Top.pos))]
  /\ UNCHANGED <<fragments, runtimeType, selectionSet, patches, visitedFragmentNames, status>>

\* The recursive call both fragment cases end in: with `defer` a new Map
\* is the callee's `fields`, without it the caller's own.
Recurse(selections, path, defer) ==
  IF Len(stack) >= MaxStack
  THEN /\ status' = "RangeError"
       /\ UNCHANGED <<stack, fieldMaps>>
  ELSE /\ status' = status
       /\ fieldMaps' = IF defer.deferred THEN Append(fieldMaps, << >>) ELSE fieldMaps
       /\ stack' = Call(selections, path,
                        FieldsOfCall(defer, Top.fields, Len(fieldMaps) + 1), defer)

\* case Kind.INLINE_FRAGMENT
CollectInlineFragment ==
  /\ AtSelection
  /\ Selection.kind = INLINE_FRAGMENT
  /\ IF \/ ~shouldIncludeNode(Selection)
        \/ ~doesFragmentConditionMatch(Selection, runtimeType)
     THEN /\ stack' = Advance
          /\ UNCHANGED <<fieldMaps, status>>
     ELSE Recurse(Selection.selectionSet, Append(Top.path, Top.pos), getDeferValues(Selection))
  /\ UNCHANGED <<fragments, runtimeType, selectionSet, patches, visitedFragmentNames>>

\* case Kind.FRAGMENT_SPREAD
CollectFragmentSpread ==
  /\ AtSelection
  /\ Selection.kind = FRAGMENT_SPREAD
  /\ LET fragName == Selection.name
         defer == getDeferValues(Selection)
     IN IF \/ ~shouldIncludeNode(Selection)
           \/ SkipVisited(visitedFragmentNames, fragName, defer)
           \/ fragName \notin DOMAIN fragments
           \/ ~doesFragmentConditionMatch(fragments[fragName], runtimeType)
        THEN /\ stack' = Advance
             /\ UNCHANGED <<fieldMaps, visitedFragmentNames, status>>
        ELSE /\ visitedFragmentNames' = MarkVisited(visitedFragmentNames, fragName)
             /\ Recurse(fragments[fragName].selectionSet, <<fragName>>, defer)
  /\ UNCHANGED <<fragments, runtimeType, selectionSet, patches>>

\* `return { fields, patches }`: the top-level call is done, or the caller
\* pushes the patch of a deferred call and goes on with its loop.
Return ==
  /\ status = "running"
  /\ Top.pos > Len(Top.selections)
  /\ IF Len(stack) = 1
     THEN /\ status' = "returned"
          /\ UNCHANGED <<stack, patches>>
     ELSE LET caller == stack[Len(stack) - 1]
              patchFields == Top.fields
          IN /\ status' = status
             /\ patches' = IF caller.defer.deferred
                           THEN PushPatch(patches, caller.defer, patchFields)
                           ELSE patches
             /\ stack' = [SubSeq(stack, 1, Len(stack) - 1) EXCEPT
                            ![Len(stack) - 1].pos = @ + 1,
                            ![Len(stack) - 1].defer = NotDeferred]
  /\ UNCHANGED <<fragments, runtimeType, selectionSet, fieldMaps, visitedFragmentNames>>

Next == CollectField \/ CollectInlineFragment \/ CollectFragmentSpread \/ Return

\* ------------------------------------------------------------------ inputs

SeqUpTo(S, n) == UNION {[1..k -> S] : k \in 1..n}

\* The start of a top-level call with fresh, empty accumulators.
Start ==
  /\ stack = <<Frame(selectionSet, <<"$">>, 1)>>
  /\ fieldMaps = << << >> >>
  /\ patches = << >>
  /\ visitedFragmentNames = {}
  /\ status = "running"

Plain(name) == FieldNode(name, NoAlias, NoDirective, NoDirective)
Aliased(name, alias) == FieldNode(name, alias, NoDirective, NoDirective)
Spread(name) == FragmentSpreadNode(name, NoDirective, NoDirective, NoDirective)
Inline(typeCondition, selections) ==
  InlineFragmentNode(typeCondition, NoDirective, NoDirective, NoDirective, selections)

\* @defer, @defer(label: l), @defer(if: false), @defer(if: false, label: l),
\* @defer(if: true, label: null)
Defer == Directive(JSUndefined, JSUndefined)
DeferLabel(l) == Directive(JSUndefined, JSString(l))
DeferIfFalse == Directive(JSFalse, JSUndefined)
DeferIfFalseLabel(l) == Directive(JSFalse, JSString(l))
DeferNullLabel == Directive(JSTrue, JSNull)

\* @skip / @include with `if` true, false, or bound to nothing
\* (no argument, an unset variable).
IfVariants ==
  {NoDirective, Directive(JSTrue, JSUndefined), Directive(JSFalse, JSUndefined),
   Directive(JSUndefined, JSUndefined)}

DeferredSpread(name) == FragmentSpreadNode(name, NoDirective, NoDirective, DeferLabel(name))
DeferredInline(defer, selections) ==
  InlineFragmentNode(NoTypeCondition, NoDirective, NoDirective, defer, selections)

\* --- documents of nested and cyclic fragments, deferred or not

Spreads == {Spread("A"), Spread("B"), DeferredSpread("A"), DeferredSpread("B")}

BodiesA ==
  {<<Plain("x")>>} \cup {<<Plain("x"), s>> : s \in Spreads} \cup {<<s, Plain("x")>> : s \in Spreads}

BodiesB ==
  {<<Plain("y")>>, <<Aliased("y", "x")>>} \cup {<<Plain("y"), s>> : s \in Spreads}
    \cup {<<Spread("C"), Plain("y")>>, <<Spread("U"), Plain("y")>>}

\* fragment A on Dog, fragment B (any type), fragment C on Cat; no fragment U.
FragmentTables ==
  {[n \in {"A", "B", "C"} |->
      CASE n = "A" -> FragmentDefinitionNode("Dog", a)
        [] n = "B" -> FragmentDefinitionNode(NoTypeCondition, b)
        [] n = "C" -> FragmentDefinitionNode("Cat", <<Plain("z")>>)] :
   a \in BodiesA, b \in BodiesB}

RootSelections ==
  {Plain("x")} \cup Spreads \cup
  {FragmentSpreadNode("A", NoDirective, NoDirective, DeferIfFalseLabel("A")),
   Inline("Pet", <<Plain("y")>>),
   Inline("Cat", <<Plain("z")>>),
   Inline(NoTypeCondition, <<DeferredInline(DeferLabel("in"), <<Plain("x")>>), Plain("y")>>),
   DeferredInline(Defer, <<Plain("y")>>),
   DeferredInline(DeferLabel("out"), <<Spread("A")>>),
   DeferredInline(DeferLabel("out"), <<Plain("x"), DeferredInline(DeferLabel("in"), <<Plain("y")>>)>>)}

Init ==
  /\ runtimeType = "Dog"
  /\ fragments \in FragmentTables
  /\ selectionSet \in SeqUpTo(RootSelections, MaxLen)
  /\ Start

Spec == Init /\ [][Next]_vars

\* --- the same fragment tables under selection sets of spreads; the calls of
\* one collectFields run follow each other without suspension

CycleSelections ==
  {Plain("x")} \cup Spreads \cup {DeferredInline(DeferLabel("out"), <<Spread("A")>>)}

InitCycles ==
  /\ runtimeType = "Dog"
  /\ fragments \in FragmentTables
  /\ selectionSet \in SeqUpTo(CycleSelections, MaxLen)
  /\ Start

SpecCycles == InitCycles /\ [][Next]_vars /\ WF_vars(Next)

\* --- documents whose nodes carry @skip and @include

IncludeSelections ==
  UNION {{FieldNode("y", NoAlias, s, i),
          InlineFragmentNode(NoTypeCondition, s, i, NoDirective, <<Plain("y")>>),
          InlineFragmentNode(NoTypeCondition, s, i, Defer, <<Plain("y")>>),
          FragmentSpreadNode("A", s, i, NoDirective)} : s \in IfVariants, i \in IfVariants}

InitInclude ==
  /\ runtimeType = "Dog"
  /\ fragments = [n \in {"A"} |-> FragmentDefinitionNode(NoTypeCondition, <<Plain("x")>>)]
  /\ selectionSet \in SeqUpTo(IncludeSelections, MaxLen)
  /\ Start

SpecInclude == InitInclude /\ [][Next]_vars

\* --- documents whose fragments carry type conditions and @defer

TypeConditions == {NoTypeCondition, "Dog", "Pet", "Cat", "Feline", "Ghost"}

DeferVariants ==
  {NoDirective, Defer, DeferLabel("x"), DeferIfFalse, DeferIfFalseLabel("x"), DeferNullLabel}

DeferSelections ==
  {Plain("x")}
    \cup {InlineFragmentNode(t, NoDirective, NoDirective, d, <<Plain("y")>>) :
            t \in TypeConditions, d \in DeferVariants}
    \cup {InlineFragmentNode(NoTypeCondition, Defer, NoDirective, Defer, <<Plain("y")>>),
          InlineFragmentNode(NoTypeCondition, NoDirective, Defer, Defer, <<Plain("y")>>)}
    \cup {FragmentSpreadNode(n, NoDirective, NoDirective, d) :
            n \in {"A", "P", "C", "G", "U"}, d \in {NoDirective, Defer}}

\* fragment A (any type), P on Pet, C on Cat, G on Ghost (no such type); no fragment U.
InitDefer ==
  /\ runtimeType \in ObjectTypes
  /\ fragments = [n \in {"A", "P", "C", "G"} |->
                    FragmentDefinitionNode(
                      CASE n = "A" -> NoTypeCondition [] n = "P" -> "Pet"
                        [] n = "C" -> "Cat" [] n = "G" -> "Ghost",
                      <<Plain("x")>>)]
  /\ selectionSet \in SeqUpTo(DeferSelections, MaxLen)
  /\ Start

SpecDefer == InitDefer /\ [][Next]_vars

\* ------------------------------------------------- fragment-spread cycles

\* The names spread, at any depth of inline fragments, by the selections;
\* with deferOnly, only by spreads that carry @defer.
RECURSIVE SpreadNamesIn(_, _)
SpreadNamesIn(selections, deferOnly) ==
  UNION {LET sel == selections[i] IN
         CASE sel.kind = FRAGMENT_SPREAD ->
                IF deferOnly => sel.defer.present THEN {sel.name} ELSE {}
           [] sel.kind = INLINE_FRAGMENT -> SpreadNamesIn(sel.selectionSet, deferOnly)
           [] OTHER -> {} :
         i \in 1..Len(selections)}

SpreadEdges(name, deferOnly) ==
  SpreadNamesIn(fragments[name].selectionSet, deferOnly) \cap DOMAIN fragments

\* The fragments reached from the names in S by one to k spreads.
RECURSIVE SpreadReach(_, _, _)
SpreadReach(S, k, deferOnly) ==
  IF k = 0 THEN {}
  ELSE LET next == UNION {SpreadEdges(n, deferOnly) : n \in S}
       IN next \cup SpreadReach(next, k - 1, deferOnly)

OnCycle(name, deferOnly) ==
  name \in SpreadReach({name}, Cardinality(DOMAIN fragments), deferOnly)

\* Some cycle of fragment spreads in which every spread carries @defer.
DeferOnlyCycle == \E n \in DOMAIN fragments : OnCycle(n, TRUE)

\* ------------------------------------------------------------------ claims

\* C1 as stated: whatever the fragments spread, cyclically and deferred or
\* not, a top-level collectFields call never raises an error.
C1_NeverRaises == status # "RangeError"

\* C1, amended: when no cycle of fragment spreads consists only of spreads
\* that carry @defer, the top-level call reaches its return (and so raises
\* no error on the way).
C1_TerminatesWithoutDeferOnlyCycle == (~DeferOnlyCycle) ~> (status = "returned")

\* C1 witness: a call has returned on a document in which a fragment that
\* was expanded lies on a cycle of spreads, one of them deferred.
C1_Witness ==
  /\ status = "returned"
  /\ ~DeferOnlyCycle
  /\ \E n \in visitedFragmentNames :
       /\ OnCycle(n, FALSE)
       /\ SpreadEdges(n, TRUE) \cap SpreadReach({n}, Cardinality(DOMAIN fragments), FALSE) # {}
       /\ patches # << >>

\* The node carries @defer and its `if` is not false.
MarkedDefer(node) == node.defer.present /\ node.defer.if # JSFalse

\* The Field nodes a Map holds, under whatever key.
NodesOf(map) == UNION {{map[i].nodes[j] : j \in 1..Len(map[i].nodes)} : i \in 1..Len(map)}

\* The top-level selections of a fragment that are Fields and are included.
IncludedFieldsAt(selections) ==
  {j \in 1..Len(selections) :
     selections[j].kind = FIELD /\ shouldIncludeNode(selections[j])}

\* A top-level spread of the root selection set that is included, names a
\* defined fragment and matches the runtime type.
RootSpread(i) ==
  /\ selectionSet[i].kind = FRAGMENT_SPREAD
  /\ shouldIncludeNode(selectionSet[i])
  /\ selectionSet[i].name \in DOMAIN fragments
  /\ doesFragmentConditionMatch(fragments[selectionSet[i].name], runtimeType)

\* C2 as stated, on the root branch: a non-deferred spread in the root
\* selection set is skipped only if the root branch itself expanded that
\* name before, so once the call has returned the root GroupedFields holds
\* the fields of every fragment the root selection set spreads without @defer.
C2_GuardScopedPerBranch ==
  status = "returned" =>
    \A i \in 1..Len(selectionSet) :
      (RootSpread(i) /\ ~MarkedDefer(selectionSet[i])) =>
        \A j \in IncludedFieldsAt(fragments[selectionSet[i].name].selectionSet) :
          <<selectionSet[i].name, j>> \in NodesOf(fieldMaps[1])

\* No node of the selections carries a directive.
RECURSIVE NoDirectivesIn(_)
NoDirectivesIn(selections) ==
  \A i \in 1..Len(selections) :
    /\ ~selections[i].skip.present
    /\ ~selections[i].include.present
    /\ ~selections[i].defer.present
    /\ NoDirectivesIn(selections[i].selectionSet)

NoDirectives ==
  /\ NoDirectivesIn(selectionSet)
  /\ \A n \in DOMAIN fragments : NoDirectivesIn(fragments[n].selectionSet)

\* The response keys of the Fields met from selection i on, in the
\* depth-first, left-to-right expansion of a directive-free selection set;
\* acc is the keys met so far and the fragment names expanded so far.
RECURSIVE Expansion(_, _, _)
Expansion(selections, i, acc) ==
  IF i > Len(selections) THEN acc
  ELSE LET sel == selections[i] IN
       CASE sel.kind = FIELD ->
              Expansion(selections, i + 1,
                        [acc EXCEPT !.keys = Append(@, IF sel.alias # NoAlias
                                                       THEN sel.alias ELSE sel.name)])
         [] sel.kind = INLINE_FRAGMENT ->
              IF doesFragmentConditionMatch(sel, runtimeType)
              THEN Expansion(selections, i + 1, Expansion(sel.selectionSet, 1, acc))
              ELSE Expansion(selections, i + 1, acc)
         [] sel.kind = FRAGMENT_SPREAD ->
              IF /\ sel.name \notin acc.expanded
                 /\ sel.name \in DOMAIN fragments
                 /\ doesFragmentConditionMatch(fragments[sel.name], runtimeType)
              THEN Expansion(selections, i + 1,
                             Expansion(fragments[sel.name].selectionSet, 1,
                                       [acc EXCEPT !.expanded = @ \cup {sel.name}]))
              ELSE Expansion(selections, i + 1, acc)

\* A sequence without the later occurrences of its elements.
RECURSIVE FirstOccurrences(_)
FirstOccurrences(seq) ==
  IF seq = << >> THEN << >>
  ELSE LET front == FirstOccurrences(SubSeq(seq, 1, Len(seq) - 1))
           last == seq[Len(seq)]
       IN IF \E k \in 1..Len(front) : front[k] = last THEN front ELSE Append(front, last)

\* C3: for a selection set with no directives, the keys of the returned
\* GroupedFields are in the order in which each key is first met in the
\* depth-first, left-to-right expansion of fields, matching inline fragments
\* and matching fragment spreads (each name expanded at its first spread).
C3_KeyOrderIsFirstOccurrence ==
  (status = "returned" /\ NoDirectives) =>
    MapKeys(fieldMaps[1]) =
      FirstOccurrences(Expansion(selectionSet, 1, [keys |-> << >>, expanded |-> {}]).keys)

\* C3 witness: a returned directive-free call that expanded two fragments
\* and collected two keys, the first of them met more than once.
C3_Witness ==
  /\ status = "returned"
  /\ NoDirectives
  /\ Cardinality(visitedFragmentNames) = 2
  /\ Len(fieldMaps[1]) = 2
  /\ Len(fieldMaps[1][1].nodes) >= 2

\* Every key of every Map has at least one node and at most one entry.
EntriesNonEmpty ==
  \A m \in 1..Len(fieldMaps) :
    /\ \A e \in 1..Len(fieldMaps[m]) : Len(fieldMaps[m][e].nodes) >= 1
    /\ \A e, f \in 1..Len(fieldMaps[m]) : fieldMaps[m][e].key = fieldMaps[m][f].key => e = f

\* What collecting an included Field does to the Map of the call at work:
\* under a key the Map has, the node goes to the end of that key's nodes and
\* nothing else changes; under a new key, a new last entry holds the node.
FieldIsAppended ==
  (AtSelection /\ Selection.kind = FIELD /\ shouldIncludeNode(Selection)) =>
    LET old == fieldMaps[Top.fields]
        new == fieldMaps'[Top.fields]
        key == IF Selection.alias # NoAlias THEN Selection.alias ELSE Selection.name
        node == Append(Top.path, Top.pos)
    IN IF \E e \in 1..Len(old) : old[e].key = key
       THEN /\ Len(new) = Len(old)
            /\ \A e \in 1..Len(old) :
                 new[e] = IF old[e].key = key
                          THEN [key |-> key, nodes |-> Append(old[e].nodes, node)]
                          ELSE old[e]
       ELSE new = Append(old, [key |-> key, nodes |-> <<node>>])

\* C4: in every state every response key of every GroupedFields maps to a
\* non-empty sequence of Field nodes, and collecting an included Field whose
\* key (alias, else name) is already there appends the node to that
\* sequence instead of replacing it.
C4_KeysNonEmptyAndAppended == []EntriesNonEmpty /\ [][FieldIsAppended]_vars

\* C4 witness: the call returned one entry, holding in the order met a field
\* of the root selection set, one of fragment A and one of fragment B that
\* reaches the key by its alias.
C4_Witness ==
  /\ status = "returned"
  /\ Len(fieldMaps[1]) = 1
  /\ fieldMaps[1][1].key = "x"
  /\ fieldMaps[1][1].nodes = <<<<"$", 1>>, <<"A", 1>>, <<"B", 1>>>>
  /\ fragments["B"].selectionSet[1].alias = "x"

\* The selection at a path <<"$", i1, ..., ik>> of the root selection set.
RECURSIVE SelectionAt(_, _, _)
SelectionAt(selections, path, k) ==
  IF k = Len(path) THEN selections[path[k]]
  ELSE SelectionAt(selections[path[k]].selectionSet, path, k + 1)

\* The branch a Field node of the root selection set belongs to: its
\* innermost enclosing inline fragment that carries @defer, or the root.
BranchOf(path) ==
  LET deferredAt == {k \in 2..(Len(path) - 1) :
                       MarkedDefer(SelectionAt(selectionSet, SubSeq(path, 1, k), 2))}
  IN IF deferredAt = {} THEN <<"$">>
     ELSE SubSeq(path, 1, CHOOSE k \in deferredAt : \A j \in deferredAt : j <= k)

RootNodesOf(map) == {n \in NodesOf(map) : n[1] = "$"}

\* The calls waiting for a deferred call to return.
PendingDeferred == {k \in 1..(Len(stack) - 1) : stack[k].defer.deferred}

\* One Map per branch: the top-level call writes to Map 1, a non-deferred
\* call to the Map of its caller, a deferred call to a Map no call below it
\* and no patch has; the patches have a Map each, none of them Map 1 or the
\* Map of an active call; and every Map made is in a patch or on its way.
OneMapPerBranch ==
  /\ stack[1].fields = 1
  /\ \A k \in 1..(Len(stack) - 1) :
       IF stack[k].defer.deferred
       THEN /\ \A j \in 1..k : stack[j].fields # stack[k + 1].fields
            /\ stack[k + 1].fields \in 2..Len(fieldMaps)
       ELSE stack[k + 1].fields = stack[k].fields
  /\ \A p \in 1..Len(patches) :
       /\ patches[p].fields \in 2..Len(fieldMaps)
       /\ \A q \in 1..Len(patches) : patches[q].fields = patches[p].fields => q = p
       /\ \A k \in 1..Len(stack) : stack[k].fields # patches[p].fields
  /\ Len(fieldMaps) = 1 + Len(patches) + Cardinality(PendingDeferred)

\* The Field nodes of the root selection set are split by branch: those of
\* the root branch are in Map 1 or nowhere, and two of them are in the same
\* Map exactly when they are of the same branch.
SplitByBranch ==
  /\ \A n \in RootNodesOf(fieldMaps[1]) : BranchOf(n) = <<"$">>
  /\ \A m1, m2 \in 1..Len(fieldMaps) :
       \A n1 \in RootNodesOf(fieldMaps[m1]) : \A n2 \in RootNodesOf(fieldMaps[m2]) :
         (m1 = m2) <=> (BranchOf(n1) = BranchOf(n2))

\* A step writes to no Map but the one of the call at work, starts a
\* deferred call on a new, empty Map, and appends to the patches exactly when
\* a deferred call returns: one entry, holding that call's Map.
BranchStep ==
  /\ \A m \in 1..Len(fieldMaps) : m # Top.fields => fieldMaps'[m] = fieldMaps[m]
  /\ Len(stack') = Len(stack) + 1 =>
       IF stack'[Len(stack)].defer.deferred
       THEN /\ fieldMaps' = Append(fieldMaps, << >>)
            /\ stack'[Len(stack')].fields = Len(fieldMaps')
       ELSE /\ fieldMaps' = fieldMaps
            /\ stack'[Len(stack')].fields = Top.fields
  /\ IF Len(stack') = Len(stack) - 1 /\ stack[Len(stack) - 1].defer.deferred
     THEN /\ Len(patches') = Len(patches) + 1
          /\ patches'[Len(patches')].fields = Top.fields
          /\ SubSeq(patches', 1, Len(patches)) = patches
     ELSE patches' = patches

\* C5: patches are flat and isolated.  Every deferred fragment expanded gives
\* exactly one entry of the one patches sequence; the entry's GroupedFields
\* holds only the Field nodes of that fragment's own non-deferred subtree,
\* the enclosing branch gains none of them, and a deferred fragment nested
\* in a deferred fragment gives a sibling entry.
C5_PatchesFlatAndIsolated == [](OneMapPerBranch /\ SplitByBranch) /\ [][BranchStep]_vars

\* C5 witness: a deferred inline fragment holding a field and a deferred
\* inline fragment has returned two sibling patches, the inner one first,
\* each with its own field, and nothing in the root GroupedFields.
C5_Witness ==
  /\ status = "returned"
  /\ Len(selectionSet) = 1
  /\ Len(patches) = 2
  /\ fieldMaps[1] = << >>
  /\ NodesOf(fieldMaps[patches[1].fields]) = {<<"$", 1, 2, 1>>}
  /\ NodesOf(fieldMaps[patches[2].fields]) = {<<"$", 1, 1>>}
  /\ patches[1].label = JSString("in")
  /\ patches[2].label = JSString("out")

\* The labels of the deferred fragments expanded from selection i on, each
\* put down when its own selection set has been walked to the end; acc is
\* the labels so far and the fragment names visited so far.
RECURSIVE PostOrder(_, _, _)
PostOrder(selections, i, acc) ==
  IF i > Len(selections) THEN acc
  ELSE LET sel == selections[i]
           defer == getDeferValues(sel)
           Done(inner) == IF defer.deferred
                          THEN [inner EXCEPT !.labels = Append(@, defer.label)]
                          ELSE inner
       IN
       CASE sel.kind = FIELD -> PostOrder(selections, i + 1, acc)
         [] sel.kind = INLINE_FRAGMENT ->
              IF shouldIncludeNode(sel) /\ doesFragmentConditionMatch(sel, runtimeType)
              THEN PostOrder(selections, i + 1, Done(PostOrder(sel.selectionSet, 1, acc)))
              ELSE PostOrder(selections, i + 1, acc)
         [] sel.kind = FRAGMENT_SPREAD ->
              IF /\ shouldIncludeNode(sel)
                 /\ (sel.name \in acc.visited => defer.deferred)
                 /\ sel.name \in DOMAIN fragments
                 /\ doesFragmentConditionMatch(fragments[sel.name], runtimeType)
              THEN PostOrder(selections, i + 1,
                     Done(PostOrder(fragments[sel.name].selectionSet, 1,
                                    [acc EXCEPT !.visited = @ \cup {sel.name}])))
              ELSE PostOrder(selections, i + 1, acc)

\* p is a proper prefix of q.
ProperPrefix(p, q) == Len(p) < Len(q) /\ SubSeq(q, 1, Len(p)) = p

\* p comes before q in the document, neither inside the other.
LeftOf(p, q) ==
  \E k \in 1..Len(p) :
    /\ k <= Len(q)
    /\ SubSeq(p, 1, k - 1) = SubSeq(q, 1, k - 1)
    /\ p[k] < q[k]

\* Once returned, the labels of the patches are those of the deferred
\* fragments in post-order, and of two patches that hold Field nodes of
\* deferred inline fragments of the root selection set, the earlier one is
\* of the fragment nested in the other's, or of the one to its left.
PatchesInPostOrder ==
  status = "returned" =>
    /\ [p \in 1..Len(patches) |-> patches[p].label] =
         PostOrder(selectionSet, 1, [labels |-> << >>, visited |-> {}]).labels
    /\ \A p, q \in 1..Len(patches) :
         \A n1 \in RootNodesOf(fieldMaps[patches[p].fields]) :
           \A n2 \in RootNodesOf(fieldMaps[patches[q].fields]) :
             p < q => \/ ProperPrefix(BranchOf(n2), BranchOf(n1))
                      \/ LeftOf(SubSeq(BranchOf(n1), 2, Len(BranchOf(n1))),
                                SubSeq(BranchOf(n2), 2, Len(BranchOf(n2))))

\* A step leaves every entry of the patches where it is and as it is, the
\* GroupedFields it holds included.
PatchesKept ==
  /\ Len(patches') >= Len(patches)
  /\ \A p \in 1..Len(patches) :
       /\ patches'[p] = patches[p]
       /\ fieldMaps'[patches[p].fields] = fieldMaps[patches[p].fields]

\* C10: the patches are in post-order of the deferred fragments (a Patch is
\* appended once its fragment's subtree is walked, after the patches of the
\* deferred fragments nested in it; fragments not nested in each other
\* follow document order), and no later step removes, moves or changes an
\* entry.
C10_PatchesInPostOrder == []PatchesInPostOrder /\ [][PatchesKept]_vars

\* C10 witness: a labelled deferred inline fragment with a deferred inline
\* fragment inside, then a deferred spread, returned inner, outer, spread.
C10_Witness ==
  /\ status = "returned"
  /\ Len(selectionSet) = 2
  /\ selectionSet[1].kind = INLINE_FRAGMENT
  /\ selectionSet[2].kind = FRAGMENT_SPREAD
  /\ [p \in 1..Len(patches) |-> patches[p].label] =
       <<JSString("in"), JSString("out"), JSString("A")>>

\* A step at a spread that is not deferred and whose name is visited moves
\* the loop on and changes nothing else.
VisitedSpreadIsSkipped ==
  (/\ AtSelection
   /\ Selection.kind = FRAGMENT_SPREAD
   /\ Selection.name \in visitedFragmentNames
   /\ ~MarkedDefer(Selection)) =>
    /\ fieldMaps' = fieldMaps
    /\ patches' = patches
    /\ visitedFragmentNames' = visitedFragmentNames
    /\ status' = status
    /\ stack' = [stack EXCEPT ![Len(stack)].pos = @ + 1]

\* A step at a deferred spread of a visited name (included, defined,
\* matching, the stack not full) calls collectFields on the fragment's
\* selection set with a new, empty Map.
VisitedDeferredSpreadIsExpanded ==
  (/\ AtSelection
   /\ Selection.kind = FRAGMENT_SPREAD
   /\ Selection.name \in visitedFragmentNames
   /\ MarkedDefer(Selection)
   /\ shouldIncludeNode(Selection)
   /\ Selection.name \in DOMAIN fragments
   /\ doesFragmentConditionMatch(fragments[Selection.name], runtimeType)
   /\ Len(stack) < MaxStack) =>
    /\ Len(stack') = Len(stack) + 1
    /\ stack'[Len(stack')].selections = fragments[Selection.name].selectionSet
    /\ stack'[Len(stack')].pos = 1
    /\ stack'[Len(stack')].fields = Len(fieldMaps) + 1
    /\ fieldMaps' = Append(fieldMaps, << >>)
    /\ patches' = patches

\* The patches that hold the included top-level Fields of fragment `name`.
PatchesOfFragment(name) ==
  {p \in 1..Len(patches) :
     \A j \in IncludedFieldsAt(fragments[name].selectionSet) :
       <<name, j>> \in NodesOf(fieldMaps[patches[p].fields])}

\* Once returned, each deferred spread of the root selection set has a patch
\* of its own with the fields of its fragment, visited before or not.
DeferredSpreadsHavePatches ==
  status = "returned" =>
    \A i \in 1..Len(selectionSet) :
      (RootSpread(i) /\ MarkedDefer(selectionSet[i])) =>
        Cardinality(PatchesOfFragment(selectionSet[i].name)) >=
          Cardinality({k \in 1..Len(selectionSet) :
                         /\ RootSpread(k)
                         /\ MarkedDefer(selectionSet[k])
                         /\ selectionSet[k].name = selectionSet[i].name})

\* C7: a non-deferred spread of a visited name adds no field, appends no
\* patch and leaves the visited set alone; a deferred spread of a visited
\* name (included, defined, matching) is expanded and appends a fresh Patch
\* with the fragment's fields.
C7_VisitedGuardAndDeferBypass ==
  /\ [][VisitedSpreadIsSkipped /\ VisitedDeferredSpreadIsExpanded]_vars
  /\ []DeferredSpreadsHavePatches

\* C7 witness: `{ ...A ...A @defer }` with `fragment A { x ...A }` has
\* returned x of A in the root GroupedFields and again in one patch.
C7_Witness ==
  /\ status = "returned"
  /\ selectionSet = <<Spread("A"), DeferredSpread("A")>>
  /\ fragments["A"].selectionSet = <<Plain("x"), Spread("A")>>
  /\ NodesOf(fieldMaps[1]) = {<<"A", 1>>}
  /\ Len(patches) = 1
  /\ NodesOf(fieldMaps[patches[1].fields]) = {<<"A", 1>>}

\* The cases of the claim: @skip(if: true) excludes whatever @include says;
\* @skip(if: false) excludes with @include(if: false) and includes with
\* @include(if: true) or no @include; otherwise (no @skip, or an `if` that is
\* no boolean) only @include(if: false) excludes.
ExcludedByDirectives(node) ==
  CASE node.skip.present /\ node.skip.if = JSTrue -> TRUE
    [] node.skip.present /\ node.skip.if = JSFalse
         /\ node.include.present /\ node.include.if = JSFalse -> TRUE
    [] node.skip.present /\ node.skip.if = JSFalse
         /\ (~node.include.present \/ node.include.if = JSTrue) -> FALSE
    [] OTHER -> node.include.present /\ node.include.if = JSFalse

\* A step at an excluded node, of whatever kind, moves the loop on and
\* changes no accumulator.
ExcludedNodeIsSkipped ==
  (AtSelection /\ ExcludedByDirectives(Selection)) =>
    /\ fieldMaps' = fieldMaps
    /\ patches' = patches
    /\ visitedFragmentNames' = visitedFragmentNames
    /\ status' = status
    /\ stack' = [stack EXCEPT ![Len(stack)].pos = @ + 1]

\* A step at a node that is not excluded collects it: a Field is added to
\* the Map of the call, a matching inline fragment and a defined, matching
\* spread (deferred, or of a name not visited) are called into.
IncludedNodeIsCollected ==
  (AtSelection /\ ~ExcludedByDirectives(Selection) /\ Len(stack) < MaxStack) =>
    CASE Selection.kind = FIELD ->
           /\ Append(Top.path, Top.pos) \notin NodesOf(fieldMaps[Top.fields])
           /\ NodesOf(fieldMaps'[Top.fields]) =
                NodesOf(fieldMaps[Top.fields]) \cup {Append(Top.path, Top.pos)}
      [] Selection.kind = INLINE_FRAGMENT ->
           doesFragmentConditionMatch(Selection, runtimeType) =>
             /\ Len(stack') = Len(stack) + 1
             /\ stack'[Len(stack')].selections = Selection.selectionSet
      [] Selection.kind = FRAGMENT_SPREAD ->
           (/\ Selection.name \in DOMAIN fragments
            /\ doesFragmentConditionMatch(fragments[Selection.name], runtimeType)
            /\ (Selection.name \in visitedFragmentNames => MarkedDefer(Selection))) =>
             /\ Len(stack') = Len(stack) + 1
             /\ stack'[Len(stack')].selections = fragments[Selection.name].selectionSet

\* C8: shouldIncludeNode excludes a node exactly when its @skip `if` is the
\* boolean true or its @include `if` is the boolean false, the same for
\* Field, InlineFragment and FragmentSpread, and an excluded node changes no
\* accumulator.
C8_SkipIncludeRule == [][ExcludedNodeIsSkipped /\ IncludedNodeIsCollected]_vars

\* C8 witness: a field under @skip(if: false) @include(if: false) was left
\* out, and a deferred inline fragment under a @skip whose `if` is bound to
\* nothing was collected into a patch.
C8_Witness ==
  /\ status = "returned"
  /\ selectionSet =
       <<FieldNode("y", NoAlias, Directive(JSFalse, JSUndefined), Directive(JSFalse, JSUndefined)),
         InlineFragmentNode(NoTypeCondition, Directive(JSUndefined, JSUndefined), NoDirective,
                            Defer, <<Plain("y")>>)>>
  /\ fieldMaps[1] = << >>
  /\ Len(patches) = 1
  /\ NodesOf(fieldMaps[patches[1].fields]) = {<<"$", 2, 1>>}

\* Whether a type condition applies to a runtime type in the schema: none
\* always does, an object type to itself, the interface Pet to Dog and Cat,
\* the union Feline to Cat, a name the schema does not have to nothing.
TypeApplies(typeCondition, type) ==
  CASE typeCondition = NoTypeCondition -> TRUE
    [] typeCondition \in {"Dog", "Cat"} -> typeCondition = type
    [] typeCondition = "Pet" -> type \in {"Dog", "Cat"}
    [] typeCondition = "Feline" -> type = "Cat"
    [] OTHER -> FALSE

\* @skip or @include absent or without an `if` argument.
Bare(directive) == directive \in {NoDirective, Directive(JSUndefined, JSUndefined)}

\* The patches that hold a Field node.
PatchesWith(node) == {p \in 1..Len(patches) : node \in NodesOf(fieldMaps[patches[p].fields])}

\* An inline fragment of the root selection set over one field, under no
\* @skip or @include but bare ones, whose type condition applies.
RootInline(i) ==
  /\ selectionSet[i].kind = INLINE_FRAGMENT
  /\ Bare(selectionSet[i].skip)
  /\ Bare(selectionSet[i].include)
  /\ TypeApplies(selectionSet[i].typeCondition, runtimeType)
  /\ Len(selectionSet[i].selectionSet) = 1
  /\ selectionSet[i].selectionSet[1].kind = FIELD

\* What such an inline fragment has given once the call has returned.
InlineDeferOutcome(i) ==
  LET defer == selectionSet[i].defer
      node == <<"$", i, 1>>
      OnePatch(label) ==
        /\ Cardinality(PatchesWith(node)) = 1
        /\ \A p \in PatchesWith(node) : patches[p].label = label
        /\ node \notin NodesOf(fieldMaps[1])
        /\ Len(selectionSet) = 1 => Len(patches) = 1
      NoPatch ==
        /\ PatchesWith(node) = {}
        /\ node \in NodesOf(fieldMaps[1])
        /\ Len(selectionSet) = 1 => patches = << >>
  IN CASE defer = Defer -> OnePatch(JSUndefined)
       [] defer = DeferLabel("x") -> OnePatch(JSString("x"))
       [] defer \in {DeferIfFalse, DeferIfFalseLabel("x")} -> NoPatch
       [] defer = NoDirective -> NoPatch
       [] OTHER -> TRUE

\* C6: an included, type-matching inline fragment gives exactly one Patch
\* without label under a bare @defer, exactly one Patch labelled "x" under
\* @defer(label: "x"), and under @defer(if: false) or no @defer no Patch, its
\* fields going to the caller's GroupedFields; a bare @skip or @include does
\* not exclude it.
C6_InlineDeferVariants ==
  status = "returned" => \A i \in 1..Len(selectionSet) : RootInline(i) => InlineDeferOutcome(i)

\* C6 witness: a bare @defer under a bare @skip has given the one patch,
\* without label, and the fields under @defer(if: false) went to the root.
C6_Witness ==
  /\ status = "returned"
  /\ Len(selectionSet) = 2
  /\ RootInline(1) /\ RootInline(2)
  /\ selectionSet[1].defer = Defer
  /\ selectionSet[1].skip = Directive(JSUndefined, JSUndefined)
  /\ selectionSet[2].defer = DeferIfFalse
  /\ Len(patches) = 1
  /\ patches[1].label = JSUndefined
  /\ NodesOf(fieldMaps[patches[1].fields]) = {<<"$", 1, 1>>}
  /\ NodesOf(fieldMaps[1]) = {<<"$", 2, 1>>}

\* A step at a spread of an undefined fragment, or at a fragment (inline or
\* named) whose type condition does not apply, raises nothing, leaves the
\* fields, the patches and the visited set as they are, and moves the loop
\* to the next selection.
InapplicableFragmentIsSkipped ==
  (/\ AtSelection
   /\ \/ /\ Selection.kind = FRAGMENT_SPREAD
         /\ Selection.name \in DOMAIN fragments =>
              ~TypeApplies(fragments[Selection.name].typeCondition, runtimeType)
      \/ /\ Selection.kind = INLINE_FRAGMENT
         /\ ~TypeApplies(Selection.typeCondition, runtimeType)) =>
    /\ fieldMaps' = fieldMaps
    /\ patches' = patches
    /\ visitedFragmentNames' = visitedFragmentNames
    /\ status' = "running"
    /\ stack' = [stack EXCEPT ![Len(stack)].pos = @ + 1]

\* C9: an undefined fragment name and a type condition that is unknown or
\* does not match are skipped silently; no accumulator changes, the name is
\* not marked visited, and the traversal goes on with the next selection.
C9_InapplicableFragmentsSkipped == [][InapplicableFragmentIsSkipped]_vars

\* C9 witness: after a deferred spread of a fragment on an unknown type the
\* traversal has gone on and returned the field of the next selection, the
\* patches and the visited set still empty.
C9_Witness ==
  /\ status = "returned"
  /\ runtimeType = "Dog"
  /\ selectionSet = <<FragmentSpreadNode("G", NoDirective, NoDirective, Defer),
                      Inline(NoTypeCondition, <<Plain("y")>>)>>
  /\ NodesOf(fieldMaps[1]) = {<<"$", 2, 1>>}
  /\ patches = << >>
  /\ visitedFragmentNames = {}

=============================================================================
